---- MODULE Spec2Model ----
(***************************************************************************)
(* Model of the prefix trie of Trie.h (TrieNode, Trie) in an assert-enabled *)
(* build.  A string is a sequence of character codes; a TrieNode is a       *)
(* record [data, isWord, children] whose children field is the vector of    *)
(* child nodes (empty, or ALPHA_SIZE nodes after createChildren).           *)
(***************************************************************************)
EXTENDS Integers, Sequences, FiniteSets, TLC

\* ------------------------------------------------------------- bounds
\* number of distinct lowercase letters the callers use ('a', 'b', ...)
NumLetters == 2
\* longest string passed to insert
MaxLen == 2
\* number of occupied nodes the trie may grow to
MaxNodes == 3

\* ---------------------------------------------------- program constants
ALPHA_SIZE == 26
\* the character 'a', the offset of the child index
CharA == 97
\* the unset label '\0'
NUL == 0

\* m_root:    the trie's root node, with everything below it
\* inserted:  the arguments of the insert calls that returned
\* op, arg:   the last call made and its argument
\* retIsWord: what isWord returned; retWords: what getWords returned
\* status:    "building" while the client inserts, "queried" once it has made
\*            its query, "aborted" when an assert has failed
VARIABLES m_root, inserted, op, arg, retIsWord, retWords, status

vars == <<m_root, inserted, op, arg, retIsWord, retWords, status>>

\* ------------------------------------------------------------- inputs
Letters == CharA .. (CharA + NumLetters - 1)

RECURSIVE Strs(_)
\* all strings over Letters of length at most n
Strs(n) ==
    IF n = 0 THEN {<<>>}
    ELSE LET shorter == Strs(n - 1)
         IN  shorter \cup {Append(s, c) : s \in {t \in shorter : Len(t) = n - 1}, c \in Letters}

\* a string that is not lowercase: "A"
BadWord == <<65>>

\* arguments of insert
Words == Strs(MaxLen) \cup {BadWord}

\* arguments of isWord: one letter longer than anything stored, so that a walk
\* can run past the deepest allocated node
QueryWords == Strs(MaxLen + 1) \cup {BadWord}

\* ----------------------------------------------------------- TrieNode
\* TrieNode() = default
TrieNode == [data |-> NUL, isWord |-> FALSE, children |-> <<>>]

\* createChildren resizing to one slot too few
createChildrenShort(node) ==
    [node EXCEPT !.children =
        [k \in 1 .. (ALPHA_SIZE - 1) |->
            IF k <= Len(node.children) THEN node.children[k] ELSE TrieNode]]

\* children.resize(ALPHA_SIZE): existing elements are kept, new ones are default
createChildren(node) ==
    [node EXCEPT !.children =
        [k \in 1 .. ALPHA_SIZE |->
            IF k <= Len(node.children) THEN node.children[k] ELSE TrieNode]]

\* TrieNode(char c)
TrieNodeChar(c) == createChildren([TrieNode EXCEPT !.data = c])

\* hasChildren answering true for every node
hasChildrenAlways(node) == Len(node.children) >= 0

\* any_of(children, data != '\0')
hasChildren(node) ==
    \E k \in 1 .. Len(node.children) : node.children[k].data # NUL

\* ---------------------------------------------------------------- Trie
\* islower on one character
islower(c) == c \in CharA .. (CharA + ALPHA_SIZE - 1)

\* all_of(s, islower): true of the empty string
isLower(s) == \A i \in 1 .. Len(s) : islower(s[i])

\* the child index s[i] - 'a', as an index of the 1-based children sequence
Slot(c) == c - CharA + 1

\* insert's loop body with isWord set on every node of the path
insertStepEveryNode(trieNode, c, atEnd) ==
    LET n1 == IF trieNode.children = <<>> THEN createChildren(trieNode) ELSE trieNode
    IN  [n1 EXCEPT !.data = c, !.isWord = TRUE]

\* insert's loop body with isWord assigned atEnd instead of set when atEnd
insertStepAssign(trieNode, c, atEnd) ==
    LET n1 == IF trieNode.children = <<>> THEN createChildren(trieNode) ELSE trieNode
    IN  [n1 EXCEPT !.data = c, !.isWord = atEnd]

\* insert's loop body with isWord flipped at the end of the word
insertStepToggle(trieNode, c, atEnd) ==
    LET n1 == IF trieNode.children = <<>> THEN createChildren(trieNode) ELSE trieNode
    IN  [n1 EXCEPT !.data = c, !.isWord = IF atEnd THEN ~@ ELSE @]

\* the body of insert's loop on the child trieNode for the character c:
\* createChildren if it has none, set data, set isWord at the end of the word
insertStep(trieNode, c, atEnd) ==
    LET n1 == IF trieNode.children = <<>> THEN createChildren(trieNode) ELSE trieNode
        n2 == [n1 EXCEPT !.data = c]
    IN  IF atEnd THEN [n2 EXCEPT !.isWord = TRUE] ELSE n2

RECURSIVE insertFrom(_, _, _)
\* the loop of insert from position i with the pointer at `current`;
\* the result is `current` after the loop has run
insertFrom(current, s, i) ==
    IF i > Len(s) THEN current
    ELSE LET trieNode == insertStep(current.children[Slot(s[i])], s[i], i = Len(s))
         IN  [current EXCEPT !.children[Slot(s[i])] = insertFrom(trieNode, s, i + 1)]

\* the trie after insert(s), assert passed
insert(root, s) == insertFrom(root, s, 1)

RECURSIVE isWordFromCreating(_, _, _, _)
\* isWord's loop looking the child up the way insert does (createChildren)
isWordFromCreating(current, s, i, isWordVal) ==
    IF i > Len(s) THEN [node |-> current, ret |-> isWordVal]
    ELSE IF current.children = <<>> THEN [node |-> current, ret |-> isWordVal]
    ELSE LET c0 == current.children[Slot(s[i])]
             child == IF c0.children = <<>> THEN createChildren(c0) ELSE c0
             r == isWordFromCreating(child, s, i + 1, child.isWord)
         IN  [node |-> [current EXCEPT !.children[Slot(s[i])] = r.node], ret |-> r.ret]

RECURSIVE isWordFrom(_, _, _, _)
\* the loop of isWord from position i: the value returned and the node
\* `current` as the walk leaves it
isWordFrom(current, s, i, isWordVal) ==
    IF i > Len(s) THEN [node |-> current, ret |-> isWordVal]
    ELSE IF current.children = <<>> THEN [node |-> current, ret |-> isWordVal]
    ELSE LET child == current.children[Slot(s[i])]
             r == isWordFrom(child, s, i + 1, child.isWord)
         IN  [node |-> [current EXCEPT !.children[Slot(s[i])] = r.node], ret |-> r.ret]

\* the value isWord(s) returns, and the trie after the call
isWord(root, s) == isWordFrom(root, s, 1, FALSE)

\* the children the for loop of getWordsImpl does not skip, from index k on
SetFrom(node, k) == {j \in k .. Len(node.children) : node.children[j].data # NUL}

RECURSIVE getWordsImplScoped(_, _, _, _)
\* an enumerator that restores the buffer on return instead of clearing it
\* at a leaf
getWordsImplScoped(node, k, substr, words) ==
    IF SetFrom(node, k) = {} THEN [substr |-> substr, words |-> words]
    ELSE LET j == CHOOSE x \in SetFrom(node, k) : \A y \in SetFrom(node, k) : x <= y
             child == node.children[j]
             s1 == Append(substr, child.data)
             w1 == IF child.isWord THEN Append(words, s1) ELSE words
             r  == getWordsImplScoped(child, 1, s1, w1)
         IN  getWordsImplScoped(node, j + 1, substr, r.words)

RECURSIVE getWordsImpl(_, _, _, _)
\* the for loop of getWordsImpl over node.children from index k on, in ascending
\* index order (unset children are skipped by `continue`); the result is the
\* pair (substr, words) of the two reference parameters after the loop
getWordsImpl(node, k, substr, words) ==
    IF SetFrom(node, k) = {} THEN [substr |-> substr, words |-> words]
    ELSE LET j == CHOOSE x \in SetFrom(node, k) : \A y \in SetFrom(node, k) : x <= y
             child == node.children[j]
             s1 == Append(substr, child.data)
             w1 == IF child.isWord THEN Append(words, s1) ELSE words
             s2 == IF ~hasChildren(child) THEN <<>> ELSE s1
             r  == getWordsImpl(child, 1, s2, w1)
         IN  getWordsImpl(node, j + 1, r.substr, r.words)

getWords(root) == getWordsImpl(root, 1, <<>>, <<>>).words

RECURSIVE CountOccupied(_)
\* the number of occupied nodes below node
CountOccupied(node) ==
    LET occ == {k \in 1 .. Len(node.children) : node.children[k].data # NUL}
        RECURSIVE Sum(_)
        Sum(S) == IF S = {} THEN 0
                  ELSE LET k == CHOOSE x \in S : TRUE
                       IN  1 + CountOccupied(node.children[k]) + Sum(S \ {k})
    IN  Sum(occ)

\* ------------------------------------------------------------ the machine
\* A run is a client that builds a trie with insert calls, in any order and with
\* repeats, and then makes one query, isWord or getWords; the step of the query
\* records what it returned and what it left of the trie.  The trie grows to at
\* most MaxNodes occupied nodes.
Init ==
    /\ m_root = TrieNodeChar(NUL)
    /\ inserted = {}
    /\ op = "none"
    /\ arg = <<>>
    /\ retIsWord = FALSE
    /\ retWords = <<>>
    /\ status = "building"

\* t.insert(s)
Insert(s) ==
    /\ status = "building"
    /\ op' = "insert"
    /\ arg' = s
    /\ UNCHANGED <<retIsWord, retWords>>
    /\ IF ~isLower(s)
       THEN /\ status' = "aborted"
            /\ UNCHANGED <<m_root, inserted>>
       ELSE LET root == insert(m_root, s)
            IN  /\ CountOccupied(root) <= MaxNodes
                /\ m_root' = root
                /\ inserted' = inserted \cup {s}
                /\ UNCHANGED status

\* t.isWord(s)
IsWord(s) ==
    /\ status = "building"
    /\ op' = "isWord"
    /\ arg' = s
    /\ UNCHANGED <<inserted, retWords>>
    /\ IF ~isLower(s)
       THEN /\ status' = "aborted"
            /\ UNCHANGED <<m_root, retIsWord>>
       ELSE LET r == isWord(m_root, s)
            IN  /\ m_root' = r.node
                /\ retIsWord' = r.ret
                /\ status' = "queried"

\* t.getWords()
GetWords ==
    /\ status = "building"
    /\ op' = "getWords"
    /\ arg' = <<>>
    /\ retWords' = getWords(m_root)
    /\ status' = "queried"
    /\ UNCHANGED <<m_root, inserted, retIsWord>>

Next ==
    \/ \E s \in Words : Insert(s)
    \/ \E s \in QueryWords : IsWord(s)
    \/ GetWords

Spec == Init /\ [][Next]_vars

\* ------------------------------------------------- vocabulary of the claims
\* the trie a fresh Trie() holds
FreshRoot == TrieNodeChar(NUL)

\* the non-empty words passed to insert so far
Stored == inserted \ {<<>>}

\* the non-empty lowercase strings isWord is asked about
ValidQueries == Strs(MaxLen + 1) \ {<<>>}

\* a is a prefix of b
IsPrefix(a, b) == Len(a) <= Len(b) /\ SubSeq(b, 1, Len(a)) = a

\* a < b in the order of std::string's operator<
LexLess(a, b) ==
    \/ Len(a) < Len(b) /\ IsPrefix(a, b)
    \/ \E i \in 1 .. Len(a) :
          /\ i <= Len(b)
          /\ SubSeq(a, 1, i - 1) = SubSeq(b, 1, i - 1)
          /\ a[i] < b[i]

RECURSIVE SortedSeq(_)
\* the elements of the set S of strings, each once, in ascending order
SortedSeq(S) ==
    IF S = {} THEN <<>>
    ELSE LET m == CHOOSE x \in S : \A y \in S \ {x} : LexLess(x, y)
         IN  <<m>> \o SortedSeq(S \ {m})

RECURSIVE InsertAll(_, _)
\* the trie after inserting the words of the sequence ws, in order, into root
InsertAll(root, ws) ==
    IF ws = <<>> THEN root ELSE InsertAll(insert(root, Head(ws)), Tail(ws))

\* the occupied children of a node
Occupied(node) == {k \in 1 .. Len(node.children) : node.children[k].data # NUL}

RECURSIVE BranchesBelow(_)
\* node, or an occupied node below it, has two or more occupied children
BranchesBelow(node) ==
    \/ Cardinality(Occupied(node)) >= 2
    \/ \E k \in Occupied(node) : BranchesBelow(node.children[k])

\* some occupied node other than the root has two or more occupied children
Branching(root) == \E k \in Occupied(root) : BranchesBelow(root.children[k])

RECURSIVE SlotsOK(_, _)
\* the node in slot k of its parent, and every node below it: occupied with
\* the letter of its slot and ALPHA_SIZE child slots, or empty with none
SlotsOK(node, k) ==
    IF node.data # NUL
    THEN /\ node.data = CharA + k - 1
         /\ Len(node.children) = ALPHA_SIZE
         /\ \A j \in 1 .. ALPHA_SIZE : SlotsOK(node.children[j], j)
    ELSE /\ node.children = <<>>
         /\ node.isWord = FALSE

\* ---------------------------------------------------------------- claims

\* C1: after any sequence of inserts, isWord(w) is true exactly when w is one
\* of the inserted words, for every non-empty lowercase w (strict prefixes and
\* extensions of stored words that were not inserted are not words), both as
\* the value the call just made returned and as the value any call would return.
IsWordIffInserted ==
    /\ (status = "building") =>
           \A w \in ValidQueries : isWord(m_root, w).ret = (w \in Stored)
    /\ (op = "isWord" /\ status = "queried" /\ arg # <<>>) => (retIsWord = (arg \in Stored))

\* C1 witness: isWord answered false for a string that extends a stored word
\* by two letters, past the deepest allocated node on that path.
IsWordPastDeepestNode ==
    /\ op = "isWord" /\ status = "queried" /\ ~retIsWord
    /\ \E w \in Stored :
          /\ IsPrefix(w, arg) /\ Len(arg) >= Len(w) + 2
          /\ \A v \in Stored : IsPrefix(w, v) => v = w

\* C2: getWords returns the sorted list of the distinct inserted words.
GetWordsRoundTrip ==
    (op = "getWords") => (retWords = SortedSeq(Stored))

\* C3: the sequence getWords returns is strictly increasing.
GetWordsStrictlySorted ==
    (op = "getWords") =>
        \A i \in 1 .. (Len(retWords) - 1) : LexLess(retWords[i], retWords[i + 1])

\* C4: the trie reached by inserting the words in whatever order the run
\* inserted them (repeats included) is, node for node, the trie that inserting
\* them once each in ascending order into a fresh trie gives; so any two orders
\* give the same isWord answers and the same getWords output.
InsertOrderIrrelevant ==
    (status = "building") =>
    LET other == InsertAll(FreshRoot, SortedSeq(inserted))
    IN  /\ other = m_root
        /\ getWords(other) = getWords(m_root)
        /\ \A w \in ValidQueries : isWord(other, w).ret = isWord(m_root, w).ret

\* C4 witness: three words are stored, and the last one inserted is a strict
\* prefix of another and smaller than every other stored word, so the run
\* inserted them in an order that is not ascending.
LastInsertedIsSmallest ==
    /\ op = "insert" /\ status = "building" /\ Cardinality(Stored) = 3
    /\ \A v \in Stored \ {arg} : LexLess(arg, v)
    /\ \E v \in Stored \ {arg} : IsPrefix(arg, v)

\* C5: a second insert of the same word changes nothing: from every reachable
\* trie, insert(w) twice gives the node state insert(w) once gives, and after
\* an insert(w) that returned a further insert(w) would leave the trie as it is.
InsertIdempotent ==
    /\ (status = "building") =>
           \A w \in Strs(MaxLen) : insert(insert(m_root, w), w) = insert(m_root, w)
    /\ (op = "insert" /\ status = "building") => (insert(m_root, arg) = m_root)

\* C5 witness: a word was inserted that is a strict prefix of a stored word, so
\* the insert set isWord on an interior node.
PrefixOfStoredWordInserted ==
    /\ op = "insert" /\ status = "building" /\ arg # <<>>
    /\ \E v \in Stored : v # arg /\ IsPrefix(arg, v)

\* C6: the empty string is invalid input: insert("") and isWord("") end in the
\* abort outcome instead of returning.
EmptyStringRejected ==
    (op \in {"insert", "isWord"} /\ arg = <<>>) => (status = "aborted")

\* C7: a call of isWord or getWords that returns leaves every node as it was.
ReadsLeaveTrieUnchanged ==
    [][(op' \in {"isWord", "getWords"}) => (m_root' = m_root)]_vars

\* C7 witness: isWord returned after walking off the stored words into an
\* empty node of a non-empty trie.
IsWordWalkedIntoEmptyNode ==
    /\ op = "isWord" /\ status = "queried" /\ Stored # {}
    /\ Len(arg) >= 2
    /\ \E w \in Stored : IsPrefix(w, arg) /\ w # arg
    /\ \A v \in Stored : ~IsPrefix(arg, v)

\* C8: getWords returns the sorted distinct inserted words exactly when no
\* occupied node other than the root has two or more occupied children, that
\* is, when any two stored words with the same first letter are one a prefix
\* of the other.
ClearOnLeafRightIffNoBranching ==
    /\ (status = "building") =>
           /\ (getWords(m_root) = SortedSeq(Stored)) <=> ~Branching(m_root)
           /\ ~Branching(m_root) <=>
                  \A a, b \in Stored : a[1] = b[1] => (IsPrefix(a, b) \/ IsPrefix(b, a))
    /\ (op = "getWords") => ((retWords = SortedSeq(Stored)) <=> ~Branching(m_root))

\* C8 witness: getWords returned a wrong list on a trie that branches below
\* the root.
WrongListOnBranchingTrie ==
    op = "getWords" /\ Branching(m_root) /\ retWords # SortedSeq(Stored)

\* C9: the root has ALPHA_SIZE child slots, an unset label and isWord false;
\* every other node is occupied with the letter of its slot and ALPHA_SIZE child
\* slots, or empty (unset label, isWord false) with no child slots.
ChildSlotAllocation ==
    (op \in {"none", "insert"}) =>
    /\ m_root.data = NUL
    /\ m_root.isWord = FALSE
    /\ Len(m_root.children) = ALPHA_SIZE
    /\ \A k \in 1 .. ALPHA_SIZE : SlotsOK(m_root.children[k], k)

\* C9 witness: a word of two letters is stored, so an occupied node hangs
\* under an occupied node, next to empty ones.
TwoLevelsOccupied ==
    /\ op = "insert" /\ status = "building"
    /\ \E k \in Occupied(m_root) :
          /\ Occupied(m_root.children[k]) # {}
          /\ Cardinality(Occupied(m_root.children[k])) < ALPHA_SIZE

\* C10: getWords emits one entry per stored word, and its k-th entry is no
\* longer than the k-th smallest stored word.
OneEntryPerStoredWord ==
    (op = "getWords") =>
        /\ Len(retWords) = Cardinality(Stored)
        /\ \A k \in 1 .. Len(retWords) : Len(retWords[k]) <= Len(SortedSeq(Stored)[k])

\* C10 witness: getWords returned an entry shorter than the stored word at
\* its position.
ShortEntryEmitted ==
    /\ op = "getWords" /\ Len(retWords) = Cardinality(Stored)
    /\ \E k \in 1 .. Len(retWords) : Len(retWords[k]) < Len(SortedSeq(Stored)[k])

====
